---- MODULE Spec2Model ----
(***************************************************************************)
(* Model of the nevar-v6 utilities and bootstrap script.                   *)
(*                                                                         *)
(*   - the bootstrap script (config validation, CLI command actions,       *)
(*     initiate(), process-level event handlers)                           *)
(*   - RandomUtils (randomString, randomColor, randomNumber)               *)
(*   - ValidationUtils (resolveUser, resolveMember, urlIsImage,            *)
(*     stringIsHexColor)                                                   *)
(*                                                                         *)
(* One action is one synchronous turn of the JavaScript event loop: the    *)
(* settlement of the awaited promise together with the code that runs      *)
(* until the next await.  Strings are sequences of one-character strings.  *)
(***************************************************************************)
EXTENDS Integers, Sequences, FiniteSets, TLC

VARIABLES
    \* ---- bootstrap script
    argv,        \* process.argv[2..4]
    pc,          \* where the script is suspended
    pending,     \* the external call whose promise is awaited
    handlers,    \* process events that have a listener installed
    trace,       \* observable calls, settlements, log lines, in order
    exitCode,    \* -1 while the process lives
    initResult,  \* what initiate() settled with
    \* ---- RandomUtils
    rcall,       \* the call being evaluated
    rpc,         \* "run" | "done"
    racc,        \* characters produced so far (randomString)
    rdraws,      \* values drawn from Math.random() by this call
    rresult,     \* the returned value
    \* ---- ValidationUtils
    vcall,       \* the call being evaluated
    vpc,         \* "start" | "fetchId" | "fetchQuery" | "head" | "done"
    cache,       \* users.cache / guild.members.cache: member ids in insertion order
    netlog,      \* library network calls made and how they settled
    vsettled,    \* "pending" | "fulfilled" | "rejected": the returned promise
    vresult      \* the value the returned promise fulfilled with

bootVars == <<argv, pc, pending, handlers, trace, exitCode, initResult>>
randVars == <<rcall, rpc, racc, rdraws, rresult>>
valVars  == <<vcall, vpc, cache, netlog, vsettled, vresult>>
vars     == <<bootVars, randVars, valVars>>

\* JavaScript's undefined (distinct from every string a user can type).
Undefined == "<undefined>"

(***************************************************************************)
(* Bounds                                                                  *)
(***************************************************************************)
\* Process events emitted during one run of the script.
MaxEvents == 2
\* Math.random() is modelled as k / 2^RandBits, k in 0 .. 2^RandBits - 1.
RandBits == 4
\* randomString is called with length 0 .. MaxLen.
MaxLen == 2
\* randomNumber is called with -MaxAbs <= min <= max <= MaxAbs.
MaxAbs == 3
\* Draws one randomColor() call may make (depth of its recursion).
MaxDraws == 3

(***************************************************************************)
(* Generic helpers                                                         *)
(***************************************************************************)
RECURSIVE SelectIdx(_, _, _)
\* Indices i >= from of sequence s whose entry has kind k, in order.
SelectIdx(s, k, from) ==
    IF from > Len(s) THEN <<>>
    ELSE IF s[from][1] = k THEN <<from>> \o SelectIdx(s, k, from + 1)
    ELSE SelectIdx(s, k, from + 1)

Range(s) == {s[i] : i \in 1..Len(s)}

(***************************************************************************)
(* Bootstrap script                                                        *)
(***************************************************************************)
Outcomes == {"resolved", "rejected"}

\* Command lines the script is started with: process.argv[2..4], Undefined
\* where the command line is shorter.
Argv3Values == {"view", "unregister", "delete", "register",
                "constructor", "__proto__", "help"}
ArgvInputs ==
    {<<Undefined, Undefined, Undefined, Undefined>>,
     <<Undefined, "start", Undefined, Undefined>>,
     <<Undefined, "start", "view", Undefined>>,
     <<Undefined, "commands", Undefined, Undefined>>}
    \cup {<<Undefined, "commands", a3, a4>> : a3 \in Argv3Values, a4 \in {Undefined, "ping"}}

\* Own keys of the commandActions object literal.
OwnActions == {"view", "unregister", "delete", "register"}
\* Keys every object literal inherits from Object.prototype: functions that
\* return normally when called without arguments ...
InheritedFunctions == {"constructor", "toString", "valueOf", "hasOwnProperty"}
\* ... and a truthy inherited value that is not callable.
InheritedObjects == {"__proto__"}

\* commandActions[key]: what the property read yields.
Lookup(key) ==
    IF key \in OwnActions THEN "own"
    ELSE IF key \in InheritedFunctions THEN "inheritedFunction"
    ELSE IF key \in InheritedObjects THEN "inheritedObject"
    ELSE Undefined

Truthy(v) == v # Undefined

\* The first library call made by commandActions[name]().
FirstCall(name) ==
    CASE name = "view"       -> <<"call", "commandManager.view", Undefined>>
      [] name = "unregister" -> <<"call", "commandManager.unregister", Undefined>>
      [] name = "delete"     -> <<"call", "commandManager.delete", argv[4]>>
      [] name = "register"   -> <<"call", "loader.loadCommands", "true">>

\* The steps of initiate(), with the message logged when a step rejects.
InitiateSteps ==
    << <<"loader.loadCommands", "Error while loading commands">>,
       <<"loader.loadEvents", "Error while loading events">>,
       <<"database.initiate", "Error while initializing database">>,
       <<"loader.login", "Error while logging in bot">> >>

StepIndex(name) == CHOOSE i \in 1..Len(InitiateSteps) : InitiateSteps[i][1] = name

ProcessEvents == {"uncaughtException", "unhandledRejection", "warning"}

\* The three process.on listeners: what each does with an event.
HandlerMutant(kind) ==
    << <<"log", "error", kind>>, <<"sendToErrorLog", kind, "error">> >>
Handler(kind) ==
    CASE kind = "uncaughtException" ->
            << <<"log", "error", kind>>, <<"sendToErrorLog", kind, "error">> >>
      [] kind = "unhandledRejection" ->
            << <<"log", "error", kind>>, <<"sendToErrorLog", kind, "error">> >>
      [] kind = "warning" ->
            << <<"log", "warn", kind>>, <<"sendToErrorLog", kind, "warning">> >>

\* await p.catch(error => loggerInstance.error(message, error)): the log lines
\* written and whether the await throws.
AwaitCaughtMutant(outcome, message) ==
    [lines |-> <<>>, threw |-> outcome = "rejected"]
AwaitCaught(outcome, message) ==
    [lines |-> IF outcome = "rejected" THEN << <<"log", "error", message>> >> ELSE <<>>,
     threw |-> FALSE]

\* await p, with no catch.
AwaitBareMutant(outcome) ==
    [lines |-> IF outcome = "rejected"
               THEN << <<"log", "error", "Error while running command action">> >>
               ELSE <<>>,
     threw |-> FALSE]
AwaitBare(outcome) ==
    [lines |-> <<>>, threw |-> outcome = "rejected"]

\* An error that reaches the top of the module: the process ends with code 1.
Crash(t, why) ==
    /\ pc' = "exited"
    /\ pending' = Undefined
    /\ exitCode' = 1
    /\ trace' = Append(t, <<"exit", "1", why>>)
    /\ UNCHANGED <<argv, handlers, initResult>>

\* process.exit(0).
Exit0(t) ==
    /\ pc' = "exited"
    /\ pending' = Undefined
    /\ exitCode' = 0
    /\ trace' = Append(t, <<"exit", "0", "process.exit">>)
    /\ UNCHANGED <<argv, handlers, initResult>>

\* Suspend at an await of the library call c.
AwaitCall(t, where, c) ==
    /\ pc' = where
    /\ pending' = c[2]
    /\ trace' = Append(t, c)

\* The script from the commandActions literal to its last line, up to the
\* first await: either a command action is started, or initiate() is called
\* (it runs to its first await) and the three listeners are installed.
RunScriptBody(t) ==
    IF argv[2] = "commands" /\ Truthy(Lookup(argv[3]))
    THEN CASE Lookup(argv[3]) = "own" ->
                /\ AwaitCall(t, "cli", FirstCall(argv[3]))
                /\ UNCHANGED <<argv, handlers, exitCode, initResult>>
           [] Lookup(argv[3]) = "inheritedFunction" ->
                \* the call returns a plain value; await resumes in a later turn
                /\ pc' = "cli"
                /\ pending' = "value"
                /\ trace' = t
                /\ UNCHANGED <<argv, handlers, exitCode, initResult>>
           [] Lookup(argv[3]) = "inheritedObject" ->
                Crash(t, "TypeError: not a function")
    ELSE /\ AwaitCall(t, "initiate", <<"call", InitiateSteps[1][1], Undefined>>)
         /\ handlers' = ProcessEvents
         /\ UNCHANGED <<argv, exitCode, initResult>>

\* configValidatorInstance.start() settles; the script runs on.
ConfigSettled(outcome) ==
    /\ pc = "config"
    /\ LET a == AwaitCaught(outcome, "Error while validating config file")
           t == Append(trace, <<"settle", pending, outcome>>) \o a.lines
       IN IF a.threw THEN Crash(t, "config") ELSE RunScriptBody(t)
    /\ UNCHANGED <<randVars, valVars>>

\* The awaited promise of a command action settles.
CliSettled(outcome) ==
    /\ pc = "cli"
    /\ pending = "value" => outcome = "resolved"
    /\ LET a == AwaitBare(outcome)
           t == (IF pending = "value" THEN trace
                 ELSE Append(trace, <<"settle", pending, outcome>>)) \o a.lines
       IN IF a.threw THEN Crash(t, pending)
          ELSE IF pending = "loader.loadCommands"
               THEN /\ AwaitCall(t, "cli", <<"call", "commandManager.register", Undefined>>)
                    /\ UNCHANGED <<argv, handlers, exitCode, initResult>>
               ELSE Exit0(t)
    /\ UNCHANGED <<randVars, valVars>>

\* A step of initiate() settles; initiate() runs to its next await or returns.
InitiateSettled(outcome) ==
    /\ pc = "initiate"
    /\ LET i == StepIndex(pending)
           a == AwaitCaught(outcome, InitiateSteps[i][2])
           t == Append(trace, <<"settle", pending, outcome>>) \o a.lines
       IN IF a.threw
          THEN \* initiate() rejects; nothing awaits it: an unhandled rejection
               /\ pc' = "running"
               /\ pending' = Undefined
               /\ initResult' = "rejected"
               /\ trace' = t \o << <<"emit", "unhandledRejection", Undefined>> >>
                             \o Handler("unhandledRejection")
               /\ UNCHANGED <<argv, handlers, exitCode>>
          ELSE IF i < Len(InitiateSteps)
               THEN /\ AwaitCall(t, "initiate", <<"call", InitiateSteps[i + 1][1], Undefined>>)
                    /\ UNCHANGED <<argv, handlers, exitCode, initResult>>
               ELSE /\ pc' = "running"
                    /\ pending' = Undefined
                    /\ initResult' = "clientInstance"
                    /\ trace' = t
                    /\ UNCHANGED <<argv, handlers, exitCode>>
    /\ UNCHANGED <<randVars, valVars>>

Emitted(t) == Len(SelectIdx(t, "emit", 1))

\* The runtime emits a process event while the script is suspended.  With a
\* listener installed the listener runs; without one a warning is printed by
\* the runtime and an exception or rejection ends the process.
ProcessEvent(kind) ==
    /\ pc \in {"config", "cli", "initiate", "running"}
    /\ Emitted(trace) < MaxEvents
    /\ LET t == Append(trace, <<"emit", kind, Undefined>>)
       IN IF kind \in handlers
          THEN /\ trace' = t \o Handler(kind)
               /\ UNCHANGED <<argv, pc, pending, handlers, exitCode, initResult>>
          ELSE IF kind = "warning"
               THEN /\ trace' = t
                    /\ UNCHANGED <<argv, pc, pending, handlers, exitCode, initResult>>
               ELSE Crash(t, kind)
    /\ UNCHANGED <<randVars, valVars>>

BootIdle ==
    /\ argv = <<Undefined, Undefined, Undefined, Undefined>>
    /\ pc = "idle"
    /\ pending = Undefined
    /\ handlers = {}
    /\ trace = <<>>
    /\ exitCode = -1
    /\ initResult = Undefined

\* The module's top level up to its first await: the instances are built and
\* configValidatorInstance.start() is called.
BootInit ==
    /\ argv \in ArgvInputs
    /\ pc = "config"
    /\ pending = "configValidator.start"
    /\ handlers = {}
    /\ trace = << <<"call", "configValidator.start", Undefined>> >>
    /\ exitCode = -1
    /\ initResult = Undefined

BootNext ==
    \/ \E o \in Outcomes : ConfigSettled(o)
    \/ \E o \in Outcomes : CliSettled(o)
    \/ \E o \in Outcomes : InitiateSettled(o)
    \/ \E k \in ProcessEvents : ProcessEvent(k)

RandIdle ==
    /\ rcall = Undefined
    /\ rpc = "idle"
    /\ racc = <<>>
    /\ rdraws = <<>>
    /\ rresult = Undefined

ValIdle ==
    /\ vcall = Undefined
    /\ vpc = "idle"
    /\ cache = <<>>
    /\ netlog = <<>>
    /\ vsettled = "pending"
    /\ vresult = Undefined

InitBoot == BootInit /\ RandIdle /\ ValIdle

SpecBoot == InitBoot /\ [][BootNext]_vars

\* Every library promise the script awaits settles.
FairSpecBoot ==
    /\ SpecBoot
    /\ WF_vars(\E o \in Outcomes : ConfigSettled(o))
    /\ WF_vars(\E o \in Outcomes : CliSettled(o))
    /\ WF_vars(\E o \in Outcomes : InitiateSettled(o))

(***************************************************************************)
(* Bootstrap script: properties                                            *)
(***************************************************************************)
ManagerCalls == {"commandManager.view", "commandManager.unregister",
                 "commandManager.delete", "commandManager.register"}

StartupCalls == {InitiateSteps[i][1] : i \in 1..Len(InitiateSteps)}

Has(e) == e \in Range(trace)

ConfigHasSettled == \E o \in Outcomes : Has(<<"settle", "configValidator.start", o>>)

\* Library calls of the startup sequence made so far (loadCommands() is the
\* call without the `true` argument).
StartupCallIdx ==
    SelectSeq(SelectIdx(trace, "call", 1),
              LAMBDA i : trace[i][2] \in StartupCalls /\ trace[i][3] = Undefined)

ManagerCallIdx ==
    SelectSeq(SelectIdx(trace, "call", 1), LAMBDA i : trace[i][2] \in ManagerCalls)

\* The command line selects one of the four documented command actions.
SelectsAction == argv[2] = "commands" /\ argv[3] \in OwnActions

\* C1 (as claimed): with `commands view|unregister|delete|register` exactly the
\* matching command-manager action runs and the process then exits with code 0
\* without starting initiate(); for every other command line no
\* command-manager action runs and initiate() is started instead.
C1_DispatchAsClaimed ==
    /\ SelectsAction =>
          /\ \A k \in 1..Len(ManagerCallIdx) :
                /\ trace[ManagerCallIdx[k]][2] = "commandManager." \o argv[3]
                /\ argv[3] = "delete" => trace[ManagerCallIdx[k]][3] = argv[4]
          /\ Len(ManagerCallIdx) <= 1
          /\ StartupCallIdx = <<>>
          /\ Has(<<"settle", "commandManager." \o argv[3], "resolved">>)
                => pc = "exited" /\ exitCode = 0
          /\ exitCode = 0 => Len(ManagerCallIdx) = 1
    /\ ~SelectsAction =>
          /\ ManagerCallIdx = <<>>
          /\ ConfigHasSettled => Has(<<"call", "loader.loadCommands", Undefined>>)

\* Settlements of startup steps seen so far.
StartupSettleIdx ==
    SelectSeq(SelectIdx(trace, "settle", 1), LAMBDA i : trace[i][2] \in StartupCalls)

LogCount(message) ==
    Cardinality({i \in 1..Len(trace) : trace[i] = <<"log", "error", message>>})

\* C2, safety half: the four steps are called in the order loadCommands,
\* loadEvents, database initiate, login, each only after the previous one has
\* settled; a rejected step is logged exactly once, right when it settles, and
\* initiate() has resolved with the client instance once login has settled.
C2_Order ==
    pc \in {"initiate", "running"} =>
        LET C == StartupCallIdx
            S == StartupSettleIdx
        IN /\ Len(C) <= Len(InitiateSteps)
           /\ \A j \in 1..Len(C) : trace[C[j]][2] = InitiateSteps[j][1]
           /\ Len(S) \in {Len(C) - 1, Len(C)}
           /\ \A j \in 1..Len(S) :
                 /\ trace[S[j]][2] = InitiateSteps[j][1]
                 /\ C[j] < S[j]
                 /\ j < Len(C) => S[j] < C[j + 1]
                 /\ trace[S[j]][3] = "rejected" =>
                       /\ S[j] < Len(trace)
                       /\ trace[S[j] + 1] = <<"log", "error", InitiateSteps[j][2]>>
                 /\ LogCount(InitiateSteps[j][2])
                       = (IF trace[S[j]][3] = "rejected" THEN 1 ELSE 0)
           /\ \A j \in (Len(S) + 1)..Len(InitiateSteps) : LogCount(InitiateSteps[j][2]) = 0
           /\ (pc = "running") <=> (Len(S) = Len(InitiateSteps))
           /\ (pc = "running") <=> (initResult = "clientInstance")
           /\ pc = "initiate" => initResult = Undefined

\* C2: initiate() runs loadCommands, loadEvents, database initiate, login in
\* this order, each after the previous one settled; a rejection is logged once
\* and never stops the sequence, so once initiate() is started login is
\* attempted and initiate() resolves with the client instance.
C2_InitiateSequence ==
    /\ []C2_Order
    /\ (pc = "initiate") ~> (Has(<<"call", "loader.login", Undefined>>)
                             /\ initResult = "clientInstance")

\* initiate() has resolved although every one of its four steps rejected.
C2_AllStepsRejected ==
    /\ initResult = "clientInstance"
    /\ \A j \in 1..Len(InitiateSteps) : Has(<<"settle", InitiateSteps[j][1], "rejected">>)

\* One step of the script seen from a state in which normal startup is reached.
C3_Step ==
    (pc \in {"initiate", "running"}) =>
          /\ handlers = ProcessEvents
          /\ Emitted(trace') = Emitted(trace) + 1 =>
                LET k == trace'[Len(trace) + 1][2]
                IN /\ trace'[Len(trace) + 1] = <<"emit", k, Undefined>>
                   /\ trace' = SubSeq(trace', 1, Len(trace) + 1)
                        \o << <<"log", IF k = "warning" THEN "warn" ELSE "error", k>>,
                              <<"sendToErrorLog", k, IF k = "warning" THEN "warning" ELSE "error">> >>
                   /\ SubSeq(trace', 1, Len(trace)) = trace
                   /\ pc' = pc
                   /\ exitCode' = -1

\* C3: after normal startup is reached, the listeners for the three process
\* events are installed, and every emitted event is logged and forwarded to the
\* error log (exceptions and rejections: error level, severity 'error';
\* warnings: warn level, severity 'warning') and the process keeps running.
C3_EventsLoggedAndForwarded == [][C3_Step]_vars

\* A warning and an uncaught exception were both handled during startup.
C3_BothSeveritiesForwarded ==
    /\ pc \in {"initiate", "running"}
    /\ Has(<<"sendToErrorLog", "warning", "warning">>)
    /\ Has(<<"sendToErrorLog", "uncaughtException", "error">>)

\* What the script itself did: the trace without the process events and the
\* lines their listeners wrote.
ScriptTrace ==
    SelectSeq(trace, LAMBDA e : /\ e[1] \notin {"emit", "sendToErrorLog"}
                                /\ ~(e[1] = "log" /\ e[3] \in ProcessEvents))

\* C9: nothing (no command action, no startup step, no exit) happens before
\* configValidator.start() has settled; a rejection of it is logged once and
\* what follows is what follows a successful validation: the selected command
\* action is called, or the startup sequence runs through login.
C9_ConfigFirst ==
    /\ ScriptTrace[1] = <<"call", "configValidator.start", Undefined>>
    /\ \A i \in 2..Len(ScriptTrace) :
          ScriptTrace[i][1] \in {"call", "exit"} /\ ScriptTrace[i][3] \notin ProcessEvents
             => ScriptTrace[2][1] = "settle" /\ ScriptTrace[2][2] = "configValidator.start"
    /\ LogCount("Error while validating config file")
          = (IF Has(<<"settle", "configValidator.start", "rejected">>) THEN 1 ELSE 0)
    /\ Has(<<"settle", "configValidator.start", "rejected">>) =>
          /\ ScriptTrace[3] = <<"log", "error", "Error while validating config file">>
          /\ SelectsAction =>
                /\ Len(ScriptTrace) >= 4
                /\ ScriptTrace[4] = <<"call",
                                IF argv[3] = "register" THEN "loader.loadCommands"
                                ELSE "commandManager." \o argv[3],
                                IF argv[3] = "register" THEN "true"
                                ELSE IF argv[3] = "delete" THEN argv[4] ELSE Undefined>>
          /\ (argv[2] # "commands" \/ Lookup(argv[3]) = Undefined) =>
                /\ Len(ScriptTrace) >= 4
                /\ ScriptTrace[4] = <<"call", "loader.loadCommands", Undefined>>
                /\ pc = "running" => Has(<<"call", "loader.login", Undefined>>)

\* The bot has started (login attempted) although config validation rejected.
C9_StartedWithInvalidConfig ==
    /\ Has(<<"settle", "configValidator.start", "rejected">>)
    /\ pc = "running"
    /\ Has(<<"call", "loader.login", Undefined>>)

\* C10: in a command-action run, register() is called only right after
\* loadCommands(true) has resolved, exit code 0 is reached only when every
\* awaited call of the action resolved, a rejection inside the action is not
\* logged and ends the run without exit code 0 (register() is not called after
\* a failed load), and no process-event listener is installed.
C10_CliActionFailure ==
    SelectsAction =>
        /\ handlers = {}
        /\ \A i \in 1..Len(ScriptTrace) :
              /\ ScriptTrace[i] = <<"call", "commandManager.register", Undefined>> =>
                    /\ i > 2
                    /\ ScriptTrace[i - 2] = <<"call", "loader.loadCommands", "true">>
                    /\ ScriptTrace[i - 1] = <<"settle", "loader.loadCommands", "resolved">>
              /\ (ScriptTrace[i][1] = "settle" /\ ScriptTrace[i][3] = "rejected"
                     /\ ScriptTrace[i][2] # "configValidator.start") =>
                    /\ i + 1 = Len(ScriptTrace)
                    /\ ScriptTrace[i + 1][1] = "exit"
                    /\ ScriptTrace[i + 1][2] # "0"
                    /\ exitCode # 0
              /\ ScriptTrace[i][1] = "log" => ScriptTrace[i][3] = "Error while validating config file"
        /\ exitCode = 0 =>
              /\ \A i \in 3..Len(ScriptTrace) : ScriptTrace[i][1] = "settle" => ScriptTrace[i][3] = "resolved"
              /\ argv[3] = "register" =>
                    Has(<<"settle", "commandManager.register", "resolved">>)

\* `commands register` whose loadCommands(true) rejected.
C10_LoadFailed ==
    /\ SelectsAction
    /\ argv[3] = "register"
    /\ Has(<<"settle", "loader.loadCommands", "rejected">>)

(***************************************************************************)
(* RandomUtils                                                             *)
(***************************************************************************)
RECURSIVE Pow2(_)
Pow2(n) == IF n = 0 THEN 1 ELSE 2 * Pow2(n - 1)

\* Math.random(): the draw k stands for the number k / Scale in [0, 1).
Scale == Pow2(RandBits)
RandomSource == 0..(Scale - 1)

\* const characters = 'ABC...XYZabc...xyz0123456789'
characters ==
    << "A", "B", "C", "D", "E", "F", "G", "H", "I", "J", "K", "L", "M",
       "N", "O", "P", "Q", "R", "S", "T", "U", "V", "W", "X", "Y", "Z",
       "a", "b", "c", "d", "e", "f", "g", "h", "i", "j", "k", "l", "m",
       "n", "o", "p", "q", "r", "s", "t", "u", "v", "w", "x", "y", "z",
       "0", "1", "2", "3", "4", "5", "6", "7", "8", "9" >>

\* characters[Math.floor(Math.random() * characters.length)]; an index past
\* the end of a string reads undefined.  (k * 62 has far fewer than 53
\* significant bits, so the product is exact in binary64.)
CharAt(k) ==
    LET idx == (k * Len(characters)) \div Scale
    IN IF idx < Len(characters) THEN characters[idx + 1] ELSE Undefined

\* Array.prototype.join(''): undefined elements contribute the empty string.
RECURSIVE Join(_)
Join(a) ==
    IF a = <<>> THEN <<>>
    ELSE (IF Head(a) = Undefined THEN <<>> ELSE <<Head(a)>>) \o Join(Tail(a))

\* Array.from({ length }, callback): the callback runs while fewer than
\* `length` elements exist.
ArrayFromDoneMutant(acc, length) == Len(acc) = length + 1
ArrayFromDone(acc, length) == Len(acc) = length

HexDigits == << "0", "1", "2", "3", "4", "5", "6", "7",
                "8", "9", "a", "b", "c", "d", "e", "f" >>

\* Number.prototype.toString(16) of a non-negative integer.
RECURSIVE ToHex(_)
ToHex(n) ==
    IF n < 16 THEN <<HexDigits[n + 1]>>
    ELSE ToHex(n \div 16) \o <<HexDigits[(n % 16) + 1]>>

ColorRange == 16777215

\* '#' + Math.floor(Math.random() * 16777215).toString(16)  (the product of a
\* modelled draw is exact in binary64).
ColorCandidate(k) == <<"#">> \o ToHex((k * ColorRange) \div Scale)

\* randomColor.length === 7
ColorAcceptedMutant(c) == Len(c) <= 7
ColorAccepted(c) == Len(c) = 7

\* binary64 arithmetic, scaled down: a significand of Precision bits instead of
\* 53, so that Math.random()'s draws fill all but one bit of it as they do in
\* the engine (52 random bits).  Numbers are integers counted in units of
\* 1 / Scale.
Precision == RandBits + 1

RECURSIVE BitLen(_)
BitLen(x) == IF x = 0 THEN 0 ELSE 1 + BitLen(x \div 2)

\* Round a non-negative value to Precision significant bits, ties to even.
RoundMag(x) ==
    IF x < Pow2(Precision) THEN x
    ELSE LET e    == BitLen(x) - Precision
             q    == x \div Pow2(e)
             rem  == x % Pow2(e)
             half == Pow2(e - 1)
         IN (IF rem > half \/ (rem = half /\ q % 2 = 1) THEN q + 1 ELSE q) * Pow2(e)

RoundNearestEven(x) == IF x < 0 THEN -RoundMag(-x) ELSE RoundMag(x)

FMul(k, n) == RoundNearestEven(k * n)
FAdd(x, y) == RoundNearestEven(x + y)
\* Math.floor of a value counted in units of 1 / Scale.
Floor(x) == x \div Scale

\* Math.floor(Math.random() * (max - min + 1) + min)
randomNumber(k, min, max) == Floor(FAdd(FMul(k, max - min + 1), min * Scale))

RandomCalls ==
    {[fn |-> "randomString", a |-> n, b |-> 0] : n \in 0..MaxLen}
    \cup {[fn |-> "randomColor", a |-> 0, b |-> 0]}
    \cup {[fn |-> "randomNumber", a |-> lo, b |-> hi] :
             lo \in (-MaxAbs)..MaxAbs, hi \in (-MaxAbs)..MaxAbs}

\* One invocation of the Array.from callback in randomString.
RandomStringDraw(k) ==
    /\ rpc = "run"
    /\ rcall.fn = "randomString"
    /\ ~ArrayFromDone(racc, rcall.a)
    /\ racc' = Append(racc, CharAt(k))
    /\ rdraws' = Append(rdraws, k)
    /\ UNCHANGED <<rcall, rpc, rresult>>
    /\ UNCHANGED <<bootVars, valVars>>

\* randomString returns the joined array.
RandomStringReturn ==
    /\ rpc = "run"
    /\ rcall.fn = "randomString"
    /\ ArrayFromDone(racc, rcall.a)
    /\ rresult' = Join(racc)
    /\ rpc' = "done"
    /\ UNCHANGED <<rcall, racc, rdraws>>
    /\ UNCHANGED <<bootVars, valVars>>

\* One activation of randomColor: it returns its candidate or calls itself.
RandomColorDraw(k) ==
    /\ rpc = "run"
    /\ rcall.fn = "randomColor"
    /\ Len(rdraws) < MaxDraws
    /\ rdraws' = Append(rdraws, k)
    /\ IF ColorAccepted(ColorCandidate(k))
       THEN rresult' = ColorCandidate(k) /\ rpc' = "done"
       ELSE UNCHANGED <<rresult, rpc>>
    /\ UNCHANGED <<rcall, racc>>
    /\ UNCHANGED <<bootVars, valVars>>

RandomNumberCall(k) ==
    /\ rpc = "run"
    /\ rcall.fn = "randomNumber"
    /\ rdraws' = <<k>>
    /\ rresult' = randomNumber(k, rcall.a, rcall.b)
    /\ rpc' = "done"
    /\ UNCHANGED <<rcall, racc>>
    /\ UNCHANGED <<bootVars, valVars>>

RandInit ==
    /\ rcall \in {c \in RandomCalls : c.fn = "randomNumber" => c.a <= c.b}
    /\ rpc = "run"
    /\ racc = <<>>
    /\ rdraws = <<>>
    /\ rresult = Undefined

RandNext ==
    \/ \E k \in RandomSource : RandomStringDraw(k)
    \/ RandomStringReturn
    \/ \E k \in RandomSource : RandomColorDraw(k)
    \/ \E k \in RandomSource : RandomNumberCall(k)

InitRandom == BootIdle /\ RandInit /\ ValIdle

SpecRandom == InitRandom /\ [][RandNext]_vars

(***************************************************************************)
(* ValidationUtils: pure validators                                        *)
(***************************************************************************)
HexChars == Range(HexDigits) \cup {"A", "B", "C", "D", "E", "F"}

\* /^#?[0-9A-F]{6}$/i
stringIsHexColor(str) ==
    LET body == IF Len(str) > 0 /\ str[1] = "#" THEN Tail(str) ELSE str
    IN Len(body) = 6 /\ \A i \in 1..6 : body[i] \in HexChars

(***************************************************************************)
(* RandomUtils: properties                                                 *)
(***************************************************************************)
\* C6 (as claimed): randomNumber(min, max) with integers min <= max returns an
\* integer r with min <= r <= max, whatever Math.random() yields in [0, 1).
C6_WithinRangeAsClaimed ==
    (rcall.fn = "randomNumber" /\ rpc = "done") =>
        (rcall.a <= rresult /\ rresult <= rcall.b)

\* C7: whatever randomColor() returns is '#' and six hexadecimal digits, is
\* accepted by stringIsHexColor, and is the candidate of the last draw; every
\* earlier draw had fewer than six digits, so no draw follows an accepted one.
C7_RandomColorIsHexColor ==
    rcall.fn = "randomColor" =>
        /\ \A i \in 1..(Len(rdraws) - 1) :
              Len(ToHex((rdraws[i] * 16777215) \div Scale)) < 6
        /\ rpc = "run" =>
              \A i \in 1..Len(rdraws) : Len(ToHex((rdraws[i] * 16777215) \div Scale)) < 6
        /\ rpc = "done" =>
              /\ Len(rresult) = 7
              /\ rresult[1] = "#"
              /\ \A i \in 2..7 : rresult[i] \in
                    {"0", "1", "2", "3", "4", "5", "6", "7", "8", "9",
                     "a", "b", "c", "d", "e", "f"}
              /\ stringIsHexColor(rresult)
              /\ rresult = <<"#">> \o ToHex((rdraws[Len(rdraws)] * 16777215) \div Scale)

\* randomColor() returned after rejecting at least one short draw.
C7_ReturnedAfterRedraw ==
    rcall.fn = "randomColor" /\ rpc = "done" /\ Len(rdraws) >= 2

\* C8: randomString(length) returns exactly `length` characters, each one of
\* the 62 characters A-Z, a-z, 0-9 (no index falls outside the table), and the
\* empty string for length 0.
C8_RandomStringLengthAndCharset ==
    rcall.fn = "randomString" =>
        /\ \A i \in 1..Len(racc) : racc[i] # Undefined
        /\ \A i \in 1..Len(rdraws) : (rdraws[i] * 62) \div Scale \in 0..61
        /\ rpc = "done" =>
              /\ Len(rresult) = rcall.a
              /\ \A i \in 1..Len(rresult) : rresult[i] \in Range(characters)
              /\ rcall.a = 0 => rresult = <<>>
        /\ Cardinality(Range(characters)) = 62

\* A randomString call of the largest modelled length has returned.
C8_FullLengthReturned ==
    rcall.fn = "randomString" /\ rpc = "done" /\ rcall.a = MaxLen /\ Len(rresult) = MaxLen

(***************************************************************************)
(* ValidationUtils: resolveUser, resolveMember, urlIsImage                 *)
(***************************************************************************)
Digits == {"0", "1", "2", "3", "4", "5", "6", "7", "8", "9"}

\* \d{17,20}
MinIdLen == 17
MaxIdLen == 20

Repeat(c, n) == [i \in 1..n |-> c]

\* String.prototype.toLowerCase, on the letters the inputs use.
LowerChar(c) ==
    CASE c = "A" -> "a"
      [] c = "B" -> "b"
      [] c = "N" -> "n"
      [] OTHER -> c

toLowerCase(str) == [i \in 1..Len(str) |-> LowerChar(str[i])]

\* String.prototype.includes
includes(str, sub) ==
    \E i \in 1..(Len(str) - Len(sub) + 1) : SubSeq(str, i, i + Len(sub) - 1) = sub

\* String.prototype.startsWith
startsWith(str, prefix) ==
    Len(str) >= Len(prefix) /\ SubSeq(str, 1, Len(prefix)) = prefix

\* Number of consecutive digits of str from position i on.
RECURSIVE DigitRun(_, _)
DigitRun(str, i) ==
    IF i > Len(str) \/ str[i] \notin Digits THEN 0 ELSE 1 + DigitRun(str, i + 1)

Min(a, b) == IF a < b THEN a ELSE b

\* RegExp(/<?@?!?(\d{17,20})>?/).exec(query): capture group 1 of the leftmost
\* match (the pattern is not anchored), Undefined when there is no match.
MentionId(query) ==
    LET starts == {i \in 1..Len(query) : DigitRun(query, i) >= MinIdLen}
    IN IF starts = {} THEN Undefined
       ELSE LET i == CHOOSE j \in starts : \A k \in starts : j <= k
            IN SubSeq(query, i, i + Min(DigitRun(query, i), MaxIdLen) - 1)

\* The users / guild members that exist on the platform.
Directory ==
    [ m1 |-> [id |-> Repeat("1", 17),
              username |-> <<"a", "n", "n">>,
              displayName |-> <<"B", "o">>],
      m2 |-> [id |-> Repeat("2", 18),
              username |-> <<"A", "n", "n", "a">>,
              displayName |-> <<"z">>],
      m3 |-> [id |-> Repeat("3", 17),
              username |-> <<"x", "y">>,
              displayName |-> <<"a", "n", "n">>] ]

MemberKeys == DOMAIN Directory

Queries ==
    { <<>>,
      <<"a", "n", "n">>,
      <<"A", "N">>,
      <<"n", "a">>,
      <<"q">>,
      <<"<", "@">> \o Repeat("1", 17) \o <<">">>,
      Repeat("9", 17),
      Repeat("1", 16) }

\* response.headers['content-type'] of a HEAD response: absent, or a string.
NoHeader == [present |-> FALSE, text |-> <<>>]
ContentTypes ==
    { NoHeader,
      [present |-> TRUE, text |-> <<"i", "m", "a", "g", "e", "/", "p", "n", "g">>],
      [present |-> TRUE, text |-> <<"t", "e", "x", "t", "/", "h", "t", "m", "l">>] }

Fulfilled(v) == [state |-> "fulfilled", value |-> v]
\* A rejected promise carries no value; `none` only gives the record's value
\* field the type the fulfilled promises of the same call have.
Rejected(none) == [state |-> "rejected", value |-> none]

\* promise.catch((): void => {})
CatchVoidMutant(p) == p
CatchVoid(p) == IF p.state = "rejected" THEN Fulfilled(Undefined) ELSE p

\* First element of a sequence, Undefined when it is empty (Collection.first,
\* and Collection.find over the elements that pass its test).
First(c) == IF c = <<>> THEN Undefined ELSE c[1]

\* resolveUser, from "Check if searched user is cached" to the end.  The cache
\* is a Collection: filter and find go through it in insertion order.
UserLookup(c, query, exact) ==
    LET matchingUsernames == SelectSeq(c, LAMBDA u : Directory[u].username = query)
    IN IF Len(matchingUsernames) = 1 THEN First(matchingUsernames)
       ELSE IF ~exact
            THEN First(SelectSeq(c, LAMBDA x :
                        \/ Directory[x].username = query
                        \/ includes(toLowerCase(Directory[x].username), toLowerCase(query))))
            ELSE Undefined

\* resolveMember, from "Check for users with usernames including the query".
MemberLookup(c, query, exact) ==
    LET matchingUsernames ==
            SelectSeq(c, LAMBDA m :
                        \/ includes(toLowerCase(Directory[m].username), toLowerCase(query))
                        \/ includes(toLowerCase(Directory[m].displayName), toLowerCase(query)))
    IN IF Len(matchingUsernames) = 1 THEN First(matchingUsernames)
       ELSE IF ~exact
            THEN First(SelectSeq(matchingUsernames,
                                 LAMBDA m : Directory[m].username = query))
            ELSE Undefined

\* urlIsImage: the try block applied to the settled HEAD request.  Reading
\* .toString() of a missing content-type header throws a TypeError.
HeadTry(p) ==
    IF p.state = "rejected" THEN Fulfilled("false")
    ELSE IF ~p.value.present THEN Fulfilled("false")
    ELSE Fulfilled(IF startsWith(p.value.text, <<"i", "m", "a", "g", "e", "/">>)
                   THEN "true" ELSE "false")

\* The async method returns: its promise fulfils with v.
Return(v) ==
    /\ vpc' = "done"
    /\ vsettled' = "fulfilled"
    /\ vresult' = v

\* An await inside the method throws: its promise rejects.
Throw ==
    /\ vpc' = "done"
    /\ vsettled' = "rejected"
    /\ vresult' = Undefined

\* A fetched entry is stored in the cache (at the end when it is new).
Cached(c, keys) ==
    c \o SelectSeq(<<"m1", "m2", "m3">>, LAMBDA k : k \in keys /\ k \notin Range(c))

\* The synchronous start of the method, up to its first await.
VStart ==
    /\ vpc = "start"
    /\ IF vcall.fn = "urlIsImage"
       THEN /\ vpc' = "head"
            /\ netlog' = Append(netlog, <<"call", "head">>)
            /\ UNCHANGED <<vsettled, vresult>>
       ELSE IF vcall.query = <<>>
       THEN Return(Undefined) /\ UNCHANGED netlog
       ELSE IF MentionId(vcall.query) # Undefined
       THEN /\ vpc' = "fetchId"
            /\ netlog' = Append(netlog, <<"call", "fetchId">>)
            /\ UNCHANGED <<vsettled, vresult>>
       ELSE IF vcall.fn = "resolveUser"
       THEN Return(UserLookup(cache, vcall.query, vcall.exact)) /\ UNCHANGED netlog
       ELSE /\ vpc' = "fetchQuery"
            /\ netlog' = Append(netlog, <<"call", "fetchQuery">>)
            /\ UNCHANGED <<vsettled, vresult>>
    /\ UNCHANGED <<vcall, cache>>
    /\ UNCHANGED <<bootVars, randVars>>

\* How users.fetch(id) / guild.members.fetch({ user: id }) can settle.
FetchIdSettlements(id) ==
    {Rejected(Undefined)} \cup {Fulfilled(k) : k \in {m \in MemberKeys : Directory[m].id = id}}

\* The fetch by id settles; the method runs to its next await or returns.
VFetchIdSettled(p) ==
    /\ vpc = "fetchId"
    /\ p \in FetchIdSettlements(MentionId(vcall.query))
    /\ LET fetched == CatchVoid(p)
           c == IF p.state = "fulfilled" THEN Cached(cache, {p.value}) ELSE cache
       IN /\ cache' = c
          /\ IF fetched.state = "rejected"
             THEN Throw /\ netlog' = Append(netlog, <<"settle", "fetchId", p.state>>)
             ELSE IF fetched.value # Undefined
             THEN Return(fetched.value)
                  /\ netlog' = Append(netlog, <<"settle", "fetchId", p.state>>)
             ELSE IF vcall.fn = "resolveUser"
             THEN Return(UserLookup(c, vcall.query, vcall.exact))
                  /\ netlog' = Append(netlog, <<"settle", "fetchId", p.state>>)
             ELSE /\ vpc' = "fetchQuery"
                  /\ netlog' = netlog \o << <<"settle", "fetchId", p.state>>,
                                            <<"call", "fetchQuery">> >>
                  /\ UNCHANGED <<vsettled, vresult>>
    /\ UNCHANGED vcall
    /\ UNCHANGED <<bootVars, randVars>>

FetchQuerySettlements == {Rejected({})} \cup {Fulfilled(ks) : ks \in SUBSET MemberKeys}

HeadSettlements == {Rejected(NoHeader)} \cup {Fulfilled(ct) : ct \in ContentTypes}

\* guild.members.fetch({ query }) settles: rejected, or fulfilled with members
\* of the guild that the library also stores in the cache.
VFetchQuerySettled(p) ==
    /\ vpc = "fetchQuery"
    /\ p \in FetchQuerySettlements
    /\ LET r == CatchVoid(p)
           c == IF p.state = "fulfilled" THEN Cached(cache, p.value) ELSE cache
       IN /\ cache' = c
          /\ netlog' = Append(netlog, <<"settle", "fetchQuery", p.state>>)
          /\ IF r.state = "rejected"
             THEN Throw
             ELSE Return(MemberLookup(c, vcall.query, vcall.exact))
    /\ UNCHANGED vcall
    /\ UNCHANGED <<bootVars, randVars>>

\* The HEAD request settles.
VHeadSettled(p) ==
    /\ vpc = "head"
    /\ p \in HeadSettlements
    /\ netlog' = Append(netlog, <<"settle", "head", p.state>>)
                   \o (IF p.state = "fulfilled" /\ ~p.value.present
                       THEN << <<"header", "content-type", "absent">> >> ELSE <<>>)
    /\ vpc' = "done"
    /\ vsettled' = HeadTry(p).state
    /\ vresult' = HeadTry(p).value
    /\ UNCHANGED <<vcall, cache>>
    /\ UNCHANGED <<bootVars, randVars>>

\* Caches the call may find: any members, in any insertion order.
InitialCaches ==
    {c \in UNION {[1..n -> MemberKeys] : n \in 0..Cardinality(MemberKeys)} :
        \A i, j \in 1..Len(c) : i # j => c[i] # c[j]}

ValidationCalls ==
    {[fn |-> f, query |-> q, exact |-> e] :
        f \in {"resolveUser", "resolveMember"}, q \in Queries, e \in BOOLEAN}
    \cup {[fn |-> "urlIsImage", query |-> <<"h", "t", "t", "p">>, exact |-> FALSE]}

ValInit ==
    /\ vcall \in ValidationCalls
    /\ vpc = "start"
    /\ cache \in InitialCaches
    /\ netlog = <<>>
    /\ vsettled = "pending"
    /\ vresult = Undefined

ValNext ==
    \/ VStart
    \/ \E p \in {Rejected(Undefined)} \cup {Fulfilled(k) : k \in MemberKeys} : VFetchIdSettled(p)
    \/ \E p \in FetchQuerySettlements : VFetchQuerySettled(p)
    \/ \E p \in HeadSettlements : VHeadSettled(p)

InitValidation == BootIdle /\ RandIdle /\ ValInit

SpecValidation == InitValidation /\ [][ValNext]_vars

(***************************************************************************)
(* ValidationUtils: properties                                             *)
(***************************************************************************)
NetHas(e) == e \in Range(netlog)

\* C4: a rejected library call never rejects the promise returned by
\* resolveUser, resolveMember or urlIsImage.  After a rejected fetch the
\* resolvers answer from the cache alone (a cached entry or undefined);
\* urlIsImage answers false after a rejected HEAD request and for a response
\* without content-type header.
C4_RejectionsSwallowed ==
    /\ vsettled # "rejected"
    /\ vpc = "done" => vsettled = "fulfilled"
    /\ (vpc = "done" /\ vcall.fn = "urlIsImage"
          /\ (\/ NetHas(<<"settle", "head", "rejected">>)
              \/ NetHas(<<"header", "content-type", "absent">>)))
          => vresult = "false"
    /\ (vpc = "done" /\ vcall.fn \in {"resolveUser", "resolveMember"}
          /\ ~NetHas(<<"settle", "fetchId", "fulfilled">>)
          /\ ~NetHas(<<"settle", "fetchQuery", "fulfilled">>))
          => vresult \in Range(cache) \cup {Undefined}

\* resolveMember has returned although both of its fetches rejected.
C4_BothFetchesRejected ==
    /\ vpc = "done"
    /\ vcall.fn = "resolveMember"
    /\ NetHas(<<"settle", "fetchId", "rejected">>)
    /\ NetHas(<<"settle", "fetchQuery", "rejected">>)
    /\ vsettled = "fulfilled"

\* C5 (as claimed): resolveMember with exact = true, for a non-empty query not
\* resolved by a successful fetch by id, returns only a member whose username
\* equals the query.
C5_ExactMatchAsClaimed ==
    (/\ vpc = "done"
     /\ vcall.fn = "resolveMember"
     /\ vcall.exact
     /\ vcall.query # <<>>
     /\ ~NetHas(<<"settle", "fetchId", "fulfilled">>)
     /\ vresult # Undefined)
        => Directory[vresult].username = vcall.query

====
